---- MODULE Spec2Model ----
(***************************************************************************)
(* hex_merge.py: merge Intel-HEX record streams and raw BIN blobs into one *)
(* contiguous, padded binary image.                                        *)
(*                                                                         *)
(* The model follows main(): collect_segments reads the inputs one item at *)
(* a time (read_hex_records / read_bin), sorts the collected segments by   *)
(* start address, folds them into merged spans, and write_bin lays the     *)
(* spans into the output file.                                             *)
(***************************************************************************)
EXTENDS Integers, Sequences, FiniteSets, TLC

VARIABLES
    inputs,     \* args.inputs as the file system answers them: one item per path
    idx,        \* position of the `for item in file_list` loop (1-based)
    segs,       \* collect_segments' list `segs` of (st, ed, data)
    k,          \* position of the `for st, ed, data in segs` fold loop
    merged,     \* collect_segments' list `merged`
    out,        \* the output file: the sequence of write calls made on it
    written,    \* whether the output file was created
    warned,     \* whether the "no data segment" warning was printed
    report,     \* the range/size lines printed by write_bin
    base,       \* args.base as passed to write_bin
    pad,        \* args.pad as passed to write_bin
    exit_code,  \* process exit status once the run has ended
    pc          \* where main() is

vars == <<inputs, idx, segs, k, merged, out, written, warned, report,
          base, pad, exit_code, pc>>

----------------------------------------------------------------------------
\* Bounds of the model.

\* longest input list
MaxInputs == 3
\* highest load address of a BIN input
MaxAddr == 2
\* longest BIN file, in bytes
MaxLen == 2
\* most lines in the HEX file under study
MaxLines == 3

\* Program constants.

\* default of --base, 0x08000000
DefaultBase == 134217728
\* default of --pad, 0xFF
DefaultPad == 255

----------------------------------------------------------------------------
\* Python helpers.

Min(a, b) == IF a <= b THEN a ELSE b
Max(a, b) == IF a >= b THEN a ELSE b

\* s[a:b] for 0 <= a, 0 <= b (Python clamps both ends to len(s))
Slice(s, a, b) ==
    LET hi == Min(b, Len(s))
    IN  IF a >= hi THEN <<>> ELSE SubSeq(s, a + 1, hi)

\* s[a:]
SliceFrom(s, a) == Slice(s, a, Len(s))

\* s[:b]
SliceTo(s, b) == Slice(s, 0, b)

Last(s) == s[Len(s)]

----------------------------------------------------------------------------
\* The merge step of collect_segments.

\* (addr, addr + len(data), data), as appended to segs
Segment(addr, data) == [st |-> addr, ed |-> addr + Len(data), data |-> data]

RECURSIVE InsertByStart(_, _)
\* insert x behind every element whose key is <= x's: keeps equal keys in order
InsertByStart(sorted, x) ==
    IF sorted = <<>> THEN <<x>>
    ELSE IF Head(sorted).st <= x.st
         THEN <<Head(sorted)>> \o InsertByStart(Tail(sorted), x)
         ELSE <<x>> \o sorted

RECURSIVE SortByStartFrom(_, _)
SortByStartFrom(acc, rest) ==
    IF rest = <<>> THEN acc
    ELSE SortByStartFrom(InsertByStart(acc, Head(rest)), Tail(rest))

\* the list left in the order the inputs gave
SortByStartSkipped(s) == s

\* segs.sort(key=lambda x: x[0]): list.sort is stable
SortByStart(s) == SortByStartFrom(<<>>, s)

\* overlap only: a segment that starts at the trailing end is kept apart
TouchesStrictly(seg, l) == seg.st < l.ed

\* `if st <= led`: seg overlaps the trailing span l or starts at its end
Touches(seg, l) == seg.st <= l.ed

\* the incoming bytes laid over the trailing span's
ExtendForwardOver(l, seg) == SliceTo(l.data, seg.st - l.st) \o seg.data

\* `ldata + data[led-st:]`: the trailing bytes, then the part of seg behind them
ExtendForward(l, seg) == l.data \o SliceFrom(seg.data, l.ed - seg.st)

\* `data[:lst-st] + ldata`: the part of seg before the trailing span, then its bytes
ExtendBackward(l, seg) == SliceTo(seg.data, l.st - seg.st) \o l.data

\* One iteration of the fold over the sorted segments.
FoldStep(m, seg) ==
    IF m = <<>> THEN <<seg>>
    ELSE
        LET l      == Last(m)
            new_ed == Max(seg.ed, l.ed)
            front  == SubSeq(m, 1, Len(m) - 1)
        IN  IF Touches(seg, l)
            THEN IF seg.st < l.st
                 THEN front \o <<[st |-> seg.st, ed |-> new_ed,
                                  data |-> ExtendBackward(l, seg)]>>
                 ELSE IF seg.ed > l.ed
                      THEN front \o <<[st |-> l.st, ed |-> new_ed,
                                       data |-> ExtendForward(l, seg)]>>
                      ELSE m
            ELSE m \o <<seg>>

RECURSIVE FoldFrom(_, _)
FoldFrom(m, rest) ==
    IF rest = <<>> THEN m ELSE FoldFrom(FoldStep(m, Head(rest)), Tail(rest))

\* lines 76-93 as a function of the collected list
MergeSegments(s) == FoldFrom(<<>>, SortByStart(s))

----------------------------------------------------------------------------
\* write_bin.

\* one f.write call: `bytes` repeated `rep` times
Write(rep, bytes) == [rep |-> rep, bytes |-> bytes]

RECURSIVE WriteLoop(_, _, _, _)
\* the `for st, ed, data in segments` loop: pos is the cursor, w the writes so far
WriteLoop(segments, pos, p, w) ==
    IF segments = <<>> THEN [pos |-> pos, w |-> w]
    ELSE
        LET s  == Head(segments)
            w1 == IF s.st > pos THEN w \o <<Write(s.st - pos, <<p>>)>> ELSE w
        IN  WriteLoop(Tail(segments), s.ed, p, w1 \o <<Write(1, s.data)>>)

\* the image starts at the first span, whatever the base
RangeStartAtFirst(segments, b) == segments[1].st

\* the image starts at the base, wherever the data is
RangeStartAtBase(segments, b) == b

\* `start = min(first, base_addr)`
RangeStart(segments, b) == Min(segments[1].st, b)

\* the writes of the non-empty case, lines 105-120
WriteSegments(segments, b, p) ==
    LET start == RangeStart(segments, b)
        end   == Last(segments).ed
        loop  == WriteLoop(segments, start, p, <<>>)
    IN  IF loop.pos < end
        THEN loop.w \o <<Write(end - loop.pos, <<p>>)>>
        ELSE loop.w

RECURSIVE WritesLen(_)
\* the size of a file made of these writes
WritesLen(w) ==
    IF w = <<>> THEN 0 ELSE Head(w).rep * Len(Head(w).bytes) + WritesLen(Tail(w))

----------------------------------------------------------------------------
\* read_hex_records.  A line is a sequence of one-character strings.

UpperDigits == <<"0", "1", "2", "3", "4", "5", "6", "7", "8", "9",
                 "A", "B", "C", "D", "E", "F">>
LowerDigits == <<"0", "1", "2", "3", "4", "5", "6", "7", "8", "9",
                 "a", "b", "c", "d", "e", "f">>

IsHexDigit(c) == \E i \in 1..Len(UpperDigits) : UpperDigits[i] = c \/ LowerDigits[i] = c

HexDigit(c) ==
    (CHOOSE i \in 1..Len(UpperDigits) : UpperDigits[i] = c \/ LowerDigits[i] = c) - 1

IsSpace(c) == c = " "

RECURSIVE LStrip(_)
LStrip(s) == IF s # <<>> /\ IsSpace(Head(s)) THEN LStrip(Tail(s)) ELSE s

RECURSIVE RStrip(_)
RStrip(s) ==
    IF s # <<>> /\ IsSpace(Last(s)) THEN RStrip(SubSeq(s, 1, Len(s) - 1)) ELSE s

\* line.strip()
Strip(s) == RStrip(LStrip(s))

RECURSIVE DigitsValue(_, _)
DigitsValue(acc, s) ==
    IF s = <<>> THEN acc
    ELSE DigitsValue(acc * Len(UpperDigits) + HexDigit(Head(s)), Tail(s))

\* whether int(f, 16) returns (it strips blanks, then wants one hex digit or more)
IsHexInt(f) ==
    LET g == Strip(f)
    IN  g # <<>> /\ \A i \in 1..Len(g) : IsHexDigit(g[i])

\* int(f, 16)
HexInt(f) == DigitsValue(0, Strip(f))

\* whether bytes.fromhex(f) returns: whole bytes of two hex digits each
\* (the lines modelled carry blanks at their ends only, where strip() removes them)
IsHexBytes(f) ==
    /\ Len(f) % 2 = 0
    /\ \A i \in 1..Len(f) : IsHexDigit(f[i])

\* bytes.fromhex(f)
FromHex(f) ==
    [i \in 1..(Len(f) \div 2) |->
        HexDigit(f[2 * i - 1]) * Len(UpperDigits) + HexDigit(f[2 * i])]

\* the two bytes read low byte first
ExtendedBaseLowFirst(data) == (data[2] * 256 + data[1]) * 65536

\* struct.unpack('>H', data)[0] << 16, for a two-byte data
ExtendedBase(data) == (data[1] * 256 + data[2]) * 65536

\* The generator's state: ext_addr, the chunks yielded so far, and whether it is
\* still reading ("run"), has hit EOF ("eof") or has raised ("error").
HexStart == [ext_addr |-> 0, chunks |-> <<>>, status |-> "run"]

\* an EOF record passed over like any record of unknown type
RecordEofIgnored(h, addr, rtype, data) ==
    IF rtype = 0
    THEN [h EXCEPT !.chunks = Append(@, [addr |-> h.ext_addr + addr, data |-> data])]
    ELSE IF rtype = 4
    THEN IF Len(data) = 2
         THEN [h EXCEPT !.ext_addr = ExtendedBase(data)]
         ELSE [h EXCEPT !.status = "error"]
    ELSE h

\* The `if rtype == ...` chain on a parsed record.
Record(h, addr, rtype, data) ==
    IF rtype = 0
    THEN [h EXCEPT !.chunks = Append(@, [addr |-> h.ext_addr + addr, data |-> data])]
    ELSE IF rtype = 4
    THEN IF Len(data) = 2
         THEN [h EXCEPT !.ext_addr = ExtendedBase(data)]
         ELSE [h EXCEPT !.status = "error"]
    ELSE IF rtype = 1
    THEN [h EXCEPT !.status = "eof"]
    ELSE h

\* The body of `for line in f` for one line.
HexStep(h, raw) ==
    LET line == Strip(raw)
    IN  IF line = <<>> \/ line[1] # ":" THEN h
        ELSE IF \/ ~IsHexInt(Slice(line, 1, 3))
                \/ ~IsHexInt(Slice(line, 3, 7))
                \/ ~IsHexInt(Slice(line, 7, 9))
             THEN [h EXCEPT !.status = "error"]
        ELSE
            LET count == HexInt(Slice(line, 1, 3))
                addr  == HexInt(Slice(line, 3, 7))
                rtype == HexInt(Slice(line, 7, 9))
                field == Slice(line, 9, 9 + count * 2)
            IN  IF ~IsHexBytes(field) THEN [h EXCEPT !.status = "error"]
                ELSE Record(h, addr, rtype, FromHex(field))

RECURSIVE HexLoop(_, _)
HexLoop(h, lines) ==
    IF lines = <<>> \/ h.status # "run" THEN h
    ELSE HexLoop(HexStep(h, Head(lines)), Tail(lines))

\* read_hex_records(path) on a file of these lines: each call starts afresh
ReadHexRecords(lines) == HexLoop(HexStart, lines)

----------------------------------------------------------------------------
\* The `for item in file_list` loop of collect_segments.
\*
\* An item is a path and what the file system holds there:
\*   suffix   p.suffix
\*   exists   p.exists()
\*   has_at   '@' in item
\*   addr_ok  whether int(addr_str, 0) returns
\*   addr     int(addr_str, 0)
\*   lines    the file read as text
\*   bytes    the file read as bytes

\* p.suffix.lower()
Lower(suffix) ==
    CASE suffix = ".HEX" -> ".hex"
      [] suffix = ".BIN" -> ".bin"
      [] suffix = ".Hex" -> ".hex"
      [] OTHER -> suffix

RECURSIVE ToSegments(_)
\* segs.append((addr, addr + len(data), data)) for each yielded pair
ToSegments(chunks) ==
    IF chunks = <<>> THEN <<>>
    ELSE <<Segment(Head(chunks).addr, Head(chunks).data)>> \o ToSegments(Tail(chunks))

\* a BIN file without a load address skipped like a file of unknown type
BinFileSkipped(item, s) ==
    IF ~item.has_at THEN [segs |-> s, end |-> "next"]
    ELSE [segs |-> Append(s, Segment(item.addr, item.bytes)), end |-> "next"]

\* The `.bin` branch: read_bin yields (load_addr, path.read_bytes()).
BinFile(item, s) ==
    IF ~item.has_at THEN [segs |-> s, end |-> "exit"]
    ELSE [segs |-> Append(s, Segment(item.addr, item.bytes)), end |-> "next"]

\* One iteration: the new segs and how the iteration ends:
\* "next" (go on), "exit" (sys.exit(1)) or "crash" (an exception leaves main).
CollectOne(item, s) ==
    IF item.has_at /\ ~item.addr_ok THEN [segs |-> s, end |-> "crash"]
    ELSE IF ~item.exists THEN [segs |-> s, end |-> "next"]
    ELSE IF Lower(item.suffix) = ".hex"
    THEN LET h == ReadHexRecords(item.lines)
         IN  [segs |-> s \o ToSegments(h.chunks),
              end  |-> IF h.status = "error" THEN "crash" ELSE "next"]
    ELSE IF Lower(item.suffix) = ".bin"
    THEN BinFile(item, s)
    ELSE [segs |-> s, end |-> "next"]

----------------------------------------------------------------------------
\* The inputs the model runs on.

\* the values of --base tried
Bases == {0, MaxAddr, DefaultBase}
\* the values of --pad tried
Pads == {0, DefaultPad}

\* The bytes of the i-th BIN input: every byte of every input is distinct, so a
\* byte of the output names the input and the offset it came from.
BinBytes(i, n) == [j \in 1..n |-> 16 * i + j]

BinItem(i, a, n) ==
    [suffix |-> ".bin", exists |-> TRUE, has_at |-> TRUE, addr_ok |-> TRUE,
     addr |-> a, lines |-> <<>>, bytes |-> BinBytes(i, n)]

HexItem(lines) ==
    [suffix |-> ".hex", exists |-> TRUE, has_at |-> FALSE, addr_ok |-> TRUE,
     addr |-> 0, lines |-> lines, bytes |-> <<>>]

\* :01001000AA45  data, one byte AA at offset 0x0010
LineData == <<":", "0", "1", "0", "0", "1", "0", "0", "0", "A", "A", "4", "5">>
\* :020000040001F9  extended linear address 0x0001
LineEla1 == <<":", "0", "2", "0", "0", "0", "0", "0", "4", "0", "0", "0", "1", "F", "9">>
\* :020000040800F2  extended linear address 0x0800, with blanks around it
LineEla8 == <<" ", ":", "0", "2", "0", "0", "0", "0", "0", "4", "0", "8", "0", "0",
              "F", "2", " ">>
\* :00000001FF  end of file
LineEof == <<":", "0", "0", "0", "0", "0", "0", "0", "1", "F", "F">>
\* :020000021200EA  extended segment address, a type the decoder ignores
LineSeg == <<":", "0", "2", "0", "0", "0", "0", "0", "2", "1", "2", "0", "0", "E", "A">>
\* a blank line
LineBlank == <<" ">>
\* ;x  a line that is no record
LineText == <<";", "x">>
\* :0100000401FA  extended linear address with a one-byte payload
LineBadEla == <<":", "0", "1", "0", "0", "0", "0", "0", "4", "0", "1", "F", "A">>

GoodLines == {LineData, LineEla1, LineEla8, LineEof, LineSeg, LineBlank, LineText}

\* all sequences over S of length at most n
SeqsUpTo(S, n) == UNION {[1..m -> S] : m \in 0..n}

TypeOK ==
    /\ idx \in 1..(Len(inputs) + 1)
    /\ k \in 1..(Len(segs) + 1)
    /\ written \in BOOLEAN
    /\ warned \in BOOLEAN
    /\ pc \in {"collect", "merge", "done", "exit", "crash"}

\* The state at the start of main(), for a given argument list.
Start(items) ==
    /\ inputs = items
    /\ idx = 1
    /\ segs = <<>>
    /\ k = 1
    /\ merged = <<>>
    /\ out = <<>>
    /\ written = FALSE
    /\ warned = FALSE
    /\ report = <<>>
    /\ base = DefaultBase
    /\ pad = DefaultPad
    /\ exit_code = 0
    /\ pc = "collect"

----------------------------------------------------------------------------
\* The steps of main().

\* one iteration of `for item in file_list`
CollectItem ==
    /\ pc = "collect"
    /\ idx <= Len(inputs)
    /\ LET r == CollectOne(inputs[idx], segs)
       IN  /\ segs' = r.segs
           /\ idx' = IF r.end = "next" THEN idx + 1 ELSE idx
           /\ pc' = IF r.end = "next" THEN "collect" ELSE r.end
           /\ exit_code' = IF r.end = "next" THEN exit_code ELSE 1
    /\ UNCHANGED <<inputs, k, merged, out, written, warned, report, base, pad>>

\* segs.sort(...) once the loop is over; merged = []
SortSegs ==
    /\ pc = "collect"
    /\ idx > Len(inputs)
    /\ segs' = SortByStart(segs)
    /\ merged' = <<>>
    /\ k' = 1
    /\ pc' = "merge"
    /\ UNCHANGED <<inputs, idx, out, written, warned, report, base, pad, exit_code>>

\* one iteration of `for st, ed, data in segs`
MergeStep ==
    /\ pc = "merge"
    /\ k <= Len(segs)
    /\ merged' = FoldStep(merged, segs[k])
    /\ k' = k + 1
    /\ UNCHANGED <<inputs, idx, segs, out, written, warned, report, base, pad,
                   exit_code, pc>>

\* collect_segments returns merged; write_bin(segments, out, args.base, args.pad)
WriteBin ==
    /\ pc = "merge"
    /\ k > Len(segs)
    /\ \E b \in Bases, p \in Pads :
        /\ base' = b
        /\ pad' = p
        /\ IF merged = <<>>
           THEN /\ warned' = TRUE
                /\ out' = <<Write(1, <<>>)>>
                /\ report' = report
           ELSE /\ warned' = warned
                /\ out' = WriteSegments(merged, b, p)
                /\ report' = <<[start |-> RangeStart(merged, b),
                                end   |-> Last(merged).ed,
                                total |-> Last(merged).ed - RangeStart(merged, b),
                                size  |-> WritesLen(WriteSegments(merged, b, p))]>>
    /\ written' = TRUE
    /\ exit_code' = 0
    /\ pc' = "done"
    /\ UNCHANGED <<inputs, idx, segs, k, merged>>

Next == CollectItem \/ SortSegs \/ MergeStep \/ WriteBin

----------------------------------------------------------------------------
\* Specifications.

\* Mixed argument lists: HEX and BIN files, present or missing, with and without
\* a load address.
MixedItems ==
    {[suffix |-> ".hex", exists |-> TRUE, has_at |-> FALSE, addr_ok |-> TRUE,
      addr |-> 0, lines |-> <<LineData, LineEof>>, bytes |-> <<>>],
     [suffix |-> ".HEX", exists |-> TRUE, has_at |-> FALSE, addr_ok |-> TRUE,
      addr |-> 0, lines |-> <<LineBadEla>>, bytes |-> <<>>],
     [suffix |-> ".bin", exists |-> TRUE, has_at |-> TRUE, addr_ok |-> TRUE,
      addr |-> MaxAddr, lines |-> <<>>, bytes |-> BinBytes(1, MaxLen)],
     [suffix |-> ".bin", exists |-> TRUE, has_at |-> TRUE, addr_ok |-> FALSE,
      addr |-> 0, lines |-> <<>>, bytes |-> BinBytes(2, MaxLen)],
     [suffix |-> ".bin", exists |-> TRUE, has_at |-> FALSE, addr_ok |-> TRUE,
      addr |-> 0, lines |-> <<>>, bytes |-> BinBytes(3, MaxLen)],
     [suffix |-> ".BIN", exists |-> FALSE, has_at |-> FALSE, addr_ok |-> TRUE,
      addr |-> 0, lines |-> <<>>, bytes |-> <<>>],
     [suffix |-> ".txt", exists |-> TRUE, has_at |-> FALSE, addr_ok |-> TRUE,
      addr |-> 0, lines |-> <<>>, bytes |-> <<>>]}

Init == \E items \in SeqsUpTo(MixedItems, MaxInputs) : items # <<>> /\ Start(items)

Spec == Init /\ [][Next]_vars

\* BIN inputs only, of every load address and length, in every order.
InitMerge ==
    \E n \in 1..MaxInputs :
        \E a \in [1..n -> 0..MaxAddr], l \in [1..n -> 0..MaxLen] :
            Start([i \in 1..n |-> BinItem(i, a[i], l[i])])

SpecMerge == InitMerge /\ [][Next]_vars

\* Two HEX files: the first sets an extended base or not, the second is any
\* sequence of lines.
FirstFiles == {<<>>, <<LineEla1>>, <<LineEla8, LineData>>}

InitHex ==
    \E f1 \in FirstFiles, f2 \in SeqsUpTo(GoodLines \cup {LineBadEla}, MaxLines) :
        Start(<<HexItem(f1), HexItem(f2)>>)

SpecHex == InitHex /\ [][Next]_vars

----------------------------------------------------------------------------
\* What the properties below speak of.

\* collect_segments has returned `merged`; write_bin has not run yet
Returned == pc = "merge" /\ k > Len(segs)

RECURSIVE Concat(_)
\* the concatenation of a sequence of sequences
Concat(ss) == IF ss = <<>> THEN <<>> ELSE Head(ss) \o Concat(Tail(ss))

\* the addresses a list of segments covers
Covered(s) == UNION {s[i].st .. (s[i].ed - 1) : i \in 1..Len(s)}

\* the start and end of every span, in order
Bounds(m) == [i \in 1..Len(m) |-> <<m[i].st, m[i].ed>>]

\* the list s rearranged by the permutation f of its positions
Permuted(s, f) == [i \in 1..Len(s) |-> s[f[i]]]

\* f leaves segments of equal start address in their relative order
KeepsTies(s, f) ==
    \A i, j \in 1..Len(s) : (i < j /\ s[f[i]].st = s[f[j]].st) => f[i] < f[j]

RECURSIVE ByteAt(_, _)
\* the byte at offset off (from 0) of a file made of the writes w
ByteAt(w, off) ==
    LET n == Head(w).rep * Len(Head(w).bytes)
    IN  IF off < n THEN Head(w).bytes[(off % Len(Head(w).bytes)) + 1]
        ELSE ByteAt(Tail(w), off - n)

\* the byte the image must hold at address a: the data of the span a lies in,
\* the pad byte outside every span
ImageByte(m, p, a) ==
    IF \E i \in 1..Len(m) : m[i].st <= a /\ a < m[i].ed
    THEN LET i == CHOOSE i \in 1..Len(m) : m[i].st <= a /\ a < m[i].ed
         IN  m[i].data[a - m[i].st + 1]
    ELSE p

----------------------------------------------------------------------------
\* C1: the merged span list is sorted ascending by start and consecutive spans
\* neither overlap nor touch: spans[i].end < spans[i+1].start, at every point of
\* the fold and in the list returned.
C1_SortedApart ==
    \A i \in 1..(Len(merged) - 1) :
        /\ merged[i].st < merged[i + 1].st
        /\ merged[i].ed < merged[i + 1].st

\* three chunks, one of them empty, folded into two spans
C1_Witness ==
    /\ Returned
    /\ Len(segs) = 3
    /\ Len(merged) = 2
    /\ \E i \in 1..3 : segs[i].st = segs[i].ed
    /\ \E i \in 1..2 : segs[i].ed = segs[i + 1].st /\ segs[i].st < segs[i].ed

\* C2: for a non-empty span list, write_bin emits end - start bytes with
\* start = min(first_span.start, base) and end = last_span.end, and the byte at
\* offset a - start is the span's byte where a lies in a span, the pad byte
\* elsewhere.
C2_ImageLayout ==
    (pc = "done" /\ merged # <<>>) =>
        LET start == Min(merged[1].st, base)
            end   == Last(merged).ed
        IN  /\ WritesLen(out) = end - start
            /\ \A a \in start..(end - 1) :
                   ByteAt(out, a - start) = ImageByte(merged, pad, a)

\* padding before the first span and in a gap between two spans
C2_Witness ==
    /\ pc = "done"
    /\ Len(merged) = 2
    /\ base < merged[1].st
    /\ merged[2].st < merged[2].ed
    /\ \E a \in merged[1].st..(merged[2].st - 1) : ByteAt(out, a - base) = pad

\* C3 as stated: every permutation of the chunk list merges to the same span
\* list, bytes included.
C3_AnyOrderSameSpans ==
    Returned =>
        \A f \in Permutations(1..Len(segs)) :
            MergeSegments(Permuted(segs, f)) = merged

\* C3 amended: every permutation of the chunk list merges to spans of the same
\* starts and ends; the bytes are the same too when the permutation keeps chunks
\* of equal start address in their relative order.
C3_OrderFixesBounds ==
    Returned =>
        \A f \in Permutations(1..Len(segs)) :
            /\ Bounds(MergeSegments(Permuted(segs, f))) = Bounds(merged)
            /\ KeepsTies(segs, f) => MergeSegments(Permuted(segs, f)) = merged

\* three chunks out of address order, two of them of equal start and unequal end
C3_Witness ==
    /\ Returned
    /\ Len(segs) = 3
    /\ inputs[1].addr > inputs[3].addr
    /\ segs[1].st = segs[2].st
    /\ segs[1].st < segs[1].ed
    /\ segs[1].ed < segs[2].ed

\* The two chunks of C4: A starts first, B starts inside or at the end of A and
\* ends behind it.
ForwardPair ==
    /\ Returned
    /\ Len(segs) = 2
    /\ segs[1].st < segs[2].st
    /\ segs[2].st <= segs[1].ed
    /\ segs[1].ed < segs[2].ed

\* the single span [A.start, B.end) whose bytes below address `from` are A's and
\* whose bytes from there on are B's
JoinedAt(A, B, from) ==
    <<[st   |-> A.st,
       ed   |-> B.ed,
       data |-> [i \in 1..(B.ed - A.st) |->
                    IF A.st + i - 1 < from
                    THEN A.data[i]
                    ELSE B.data[A.st + i - B.st]]]>>

\* C4 as stated: the merge of A and B is the span [A.start, B.end) in which the
\* overlapping addresses [B.start, A.end) hold B's bytes.
C4_OverlapFromSecond ==
    ForwardPair => merged = JoinedAt(segs[1], segs[2], segs[2].st)

\* C4 amended: the merge of A and B is the span [A.start, B.end) in which the
\* overlapping addresses [B.start, A.end) hold A's bytes; B gives [A.end, B.end).
C4_OverlapFromFirst ==
    ForwardPair => merged = JoinedAt(segs[1], segs[2], segs[1].ed)

\* B starts strictly inside A
C4_Witness == ForwardPair /\ segs[2].st < segs[1].ed

\* C5: merging a merged list again, alone or concatenated with itself, gives
\* the list back.
C5_Idempotent ==
    Returned =>
        /\ MergeSegments(merged) = merged
        /\ MergeSegments(merged \o merged) = merged

\* a merged list of two spans, one of them empty
C5_Witness ==
    /\ Returned
    /\ Len(merged) = 2
    /\ \E i \in 1..2 : merged[i].st = merged[i].ed
    /\ \E i \in 1..2 : merged[i].st < merged[i].ed

\* C10: every merged span holds end - start bytes, the merged spans cover exactly
\* the addresses the chunks cover, and in the fold the incoming start is never
\* below the trailing span's start (the backward branch is never taken).
C10_NoAddressLost ==
    /\ \A i \in 1..Len(merged) : Len(merged[i].data) = merged[i].ed - merged[i].st
    /\ Returned => Covered(merged) = Covered(segs)
    /\ (pc = "merge" /\ k <= Len(segs) /\ merged # <<>>) =>
           segs[k].st >= Last(merged).st

\* three chunks in one span: one contained in the first, one reaching out of it
C10_Witness ==
    /\ Returned
    /\ Len(segs) = 3
    /\ Len(merged) = 1
    /\ segs[2].ed < segs[1].ed
    /\ segs[3].ed > segs[1].ed
    /\ inputs[1].addr > inputs[2].addr

----------------------------------------------------------------------------
\* C6 as stated: with no span, or with the base address beyond all data, write_bin
\* writes a zero-length output and warns.
C6_EmptyRangeGuard ==
    (pc = "done" /\ (merged = <<>> \/ base > Last(merged).ed)) =>
        /\ WritesLen(out) = 0
        /\ warned

\* C6 amended: with no span, write_bin writes a zero-length output and warns,
\* printing no range; with spans and the base address beyond all data, it does not
\* warn, starts the image at the first span and writes the whole data range,
\* last_span.end - first_span.start bytes.
C6_BaseBeyondIgnored ==
    pc = "done" =>
        /\ written
        /\ merged = <<>> => (WritesLen(out) = 0 /\ warned /\ report = <<>>)
        /\ (merged # <<>> /\ base > Last(merged).ed) =>
               /\ ~warned
               /\ report # <<>>
               /\ report[1].start = merged[1].st
               /\ report[1].total = Last(merged).ed - merged[1].st
               /\ WritesLen(out) = Last(merged).ed - merged[1].st
               /\ \A a \in merged[1].st..(Last(merged).ed - 1) :
                      ByteAt(out, a - merged[1].st) = ImageByte(merged, pad, a)

\* data from two inputs written with the base beyond its end
C6_Witness ==
    /\ pc = "done"
    /\ Len(merged) = 2
    /\ base > Last(merged).ed
    /\ WritesLen(out) > Len(merged[1].data) + Len(merged[2].data)

\* item is a BIN input listed without a load address
BinWithoutAddr(item) == Lower(item.suffix) = ".bin" /\ ~item.has_at

\* C8 as stated: when a BIN input is listed without a load address, whether or
\* not its file exists, write_bin is never reached and no output is written.
C8_MissingAddrFatal ==
    (\E i \in 1..Len(inputs) : BinWithoutAddr(inputs[i])) =>
        /\ ~written
        /\ pc # "done"

\* C8 amended: when a BIN input whose file exists is listed without a load
\* address, the run never leaves the input loop but by a non-zero exit, at that
\* input at the latest: the merge and write_bin are never reached and no output
\* is written; sys.exit(1) is taken only at such an input.
C8_ExistingMissingAddrFatal ==
    /\ (\E i \in 1..Len(inputs) : BinWithoutAddr(inputs[i]) /\ inputs[i].exists) =>
           /\ ~written
           /\ pc \in {"collect", "exit", "crash"}
           /\ \A i \in 1..(idx - 1) : ~(BinWithoutAddr(inputs[i]) /\ inputs[i].exists)
           /\ pc # "collect" => exit_code = 1
    /\ pc = "exit" => (BinWithoutAddr(inputs[idx]) /\ inputs[idx].exists)

\* the run has exited at the third input, after data was collected
C8_Witness ==
    /\ pc = "exit"
    /\ idx = 3
    /\ segs # <<>>
    /\ exit_code = 1

----------------------------------------------------------------------------
\* The records of a HEX file, as C7 and C9 speak of them.

\* raw is a record line: it starts, blanks aside, with the record mark
IsRecord(raw) == Strip(raw) # <<>> /\ Strip(raw)[1] = ":"

\* the fields CC, AAAA, TT and the payload of a record line
RecCount(raw) == HexInt(Slice(Strip(raw), 1, 3))
RecAddr(raw) == HexInt(Slice(Strip(raw), 3, 7))
RecType(raw) == HexInt(Slice(Strip(raw), 7, 9))
RecData(raw) == FromHex(Slice(Strip(raw), 9, 9 + 2 * RecCount(raw)))

IsData(raw) == IsRecord(raw) /\ RecType(raw) = 0
IsEla(raw) == IsRecord(raw) /\ RecType(raw) = 4
IsEof(raw) == IsRecord(raw) /\ RecType(raw) = 1

\* line i comes before the file's first EOF record
Live(lines, i) == \A j \in 1..(i - 1) : ~IsEof(lines[j])

\* the extended base in force at line i: that of the last ELA record before it
BaseAt(lines, i) ==
    LET E == {j \in 1..(i - 1) : IsEla(lines[j])}
    IN  IF E = {} THEN 0
        ELSE LET j == CHOOSE j \in E : \A j2 \in E : j2 <= j
                 d == RecData(lines[j])
             IN  (d[1] * 256 + d[2]) * 65536

\* the positions, in order, of the Data records before the first EOF
LiveData(lines) ==
    LET Keep(i) == IsData(lines[i]) /\ Live(lines, i)
    IN  SelectSeq([i \in 1..Len(lines) |-> i], Keep)

\* one segment per Data record before the first EOF, at extended base + address
ExpectedSegments(lines) ==
    LET at == LiveData(lines)
    IN  [n \in 1..Len(at) |->
            Segment(BaseAt(lines, at[n]) + RecAddr(lines[at[n]]), RecData(lines[at[n]]))]

\* every ELA record before the first EOF carries a two-byte payload
SoundElas(lines) ==
    \A i \in 1..Len(lines) :
        (IsEla(lines[i]) /\ Live(lines, i)) => Len(RecData(lines[i])) = 2

\* the lines before the file's first EOF record
BeforeEof(lines) ==
    LET E == {i \in 1..Len(lines) : IsEof(lines[i])}
    IN  IF E = {} THEN lines
        ELSE SubSeq(lines, 1, (CHOOSE i \in E : \A i2 \in E : i <= i2) - 1)

\* the inputs the loop has been through; a crash happens inside the last of them
Visited == IF pc = "crash" THEN idx ELSE idx - 1

\* C7: each Data record before its file's first EOF yields exactly one chunk, at
\* (value of the last ELA record before it in the same file) << 16, or 0, plus the
\* record's address; no other record yields a chunk, other types leave the base
\* alone, and no base carries over from one file to the next.
C7_HexChunks ==
    (\A i \in 1..Len(inputs) : SoundElas(inputs[i].lines)) =>
        /\ pc # "crash"
        /\ pc = "collect" =>
               segs = Concat([i \in 1..(idx - 1) |-> ExpectedSegments(inputs[i].lines)])

\* after a file that set base 0x08000000: data at base 0, then at base 0x10000
C7_Witness ==
    /\ pc = "collect"
    /\ idx = 3
    /\ inputs[1].lines = <<LineEla8, LineData>>
    /\ Len(segs) = 3
    /\ segs[1].st = DefaultBase + 16
    /\ segs[2].st = 16
    /\ segs[3].st = 65536 + 16

\* C9: the first EOF record ends the sequence: the chunks of a file are those of
\* its lines before the first EOF, read alone, and there are no more of them than
\* Data records before the first EOF.
C9_EofEnds ==
    pc \in {"collect", "crash"} =>
        /\ segs = Concat([i \in 1..Visited |->
                            ToSegments(ReadHexRecords(BeforeEof(inputs[i].lines)).chunks)])
        /\ \A i \in 1..Visited :
               Len(ReadHexRecords(inputs[i].lines).chunks)
                   <= Len(LiveData(inputs[i].lines))

\* a file with a Data record on each side of its EOF record, read to the end
C9_Witness ==
    /\ pc = "collect"
    /\ idx = 3
    /\ \E i, j, n \in 1..Len(inputs[2].lines) :
           /\ i < j /\ j < n
           /\ IsData(inputs[2].lines[i])
           /\ IsEof(inputs[2].lines[j])
           /\ IsData(inputs[2].lines[n])
    /\ Len(segs) = 1

====
